---- MODULE Spec2Model ----
(***************************************************************************)
(* Model of build_site.py: the capture grouper (find_triples), the         *)
(* metadata extractor (get_exif_dict, parse_gps, meta_from_rgb), the       *)
(* manifest builder (build_site) and the client pixel inspector            *)
(* (showValueAtEvent and the thermal-image handlers of make_main_js).      *)
(*                                                                         *)
(* Representation choices                                                  *)
(*  - a string is a sequence of one-character strings; a stem is a         *)
(*    sequence of code points (naturals), compared as Python compares str  *)
(*  - a path is [dir, stem, suf]: the file name is stem followed by suf    *)
(*  - angles are integers in units of 1/7200 degree; an EXIF rational is   *)
(*    [t |-> "rat", n, d], with d in {0, 1, 2} so that every quotient the  *)
(*    code computes is exact in this unit                                  *)
(*  - sha1_name is collision free: the id of a path is the path, tagged    *)
(***************************************************************************)
EXTENDS Integers, Sequences, FiniteSets, TLC

VARIABLES
    tree,       \* the input tree: path -> content, for every entry rglob yields
    pc,         \* position of build_site / main
    unvisited,  \* entries rglob has not yielded yet
    stems,      \* find_triples: stem -> (role -> path)
    order,      \* sorted(triples.items()), as the sequence of stems
    idx,        \* index of the current item of the for loop (1-based)
    cur,        \* locals of the current iteration
    out,        \* files written under out_dir (media and data)
    db,         \* build_site: db
    features,   \* build_site: features
    result,     \* value returned by build_site
    gpsIn,      \* parse_gps: the exif argument
    gpsOut,     \* parse_gps: the outcome
    DB,         \* client: DB (data/db.json)
    DN_CACHE,   \* client: DN_CACHE
    locked,     \* client: locked
    overlay,    \* client: thermOverlay.textContent
    datasetId,  \* client: thermImg.dataset.id
    loading,    \* client: loadShot calls suspended at await fetch
    lastEv      \* client: what the last showValueAtEvent call computed

buildVars  == <<tree, pc, unvisited, stems, order, idx, cur, out, db, features, result>>
gpsVars    == <<gpsIn, gpsOut>>
clientVars == <<DB, DN_CACHE, locked, overlay, datasetId, loading, lastEv>>
vars       == <<buildVars, gpsVars, clientVars>>

----------------------------------------------------------------------------
\* Bounds

MaxFiles == 3       \* entries in the input tree
MaxNum   == 1       \* numerator of an EXIF rational drawn for parse_gps
MaxDim   == 2       \* height and width of a radiometric grid
MaxRect  == 2       \* width and height of the display rectangle, in CSS px

----------------------------------------------------------------------------
\* Filename suffix rules

RGB_SUFFIX              == "-visible.jpg"
RADIOMETRIC_JPG_SUFFIX  == "-radiometric.jpg"
RADIOMETRIC_TIF_SUFFIX  == "-radiometric.tif"
RADIOMETRIC_TIFF_SUFFIX == "-radiometric.tiff"
OTHER_SUFFIX            == ".txt"

Suffixes == {RGB_SUFFIX, RADIOMETRIC_JPG_SUFFIX, RADIOMETRIC_TIF_SUFFIX,
             RADIOMETRIC_TIFF_SUFFIX, OTHER_SUFFIX}

None == [t |-> "none"]

Str(s) == [t |-> "str", v |-> s]

----------------------------------------------------------------------------
\* Strings

RECURSIVE LStrip(_)
LStrip(s) == IF s # <<>> /\ Head(s) = " " THEN LStrip(Tail(s)) ELSE s

RECURSIVE RStrip(_)
RStrip(s) == IF s # <<>> /\ s[Len(s)] = " " THEN RStrip(SubSeq(s, 1, Len(s) - 1)) ELSE s

\* str.strip()
Strip(s) == RStrip(LStrip(s))

\* " ".join([a, b])
JoinSpace(a, b) == a \o <<" ">> \o b

\* Python's < on str: the first differing code point decides, a proper prefix is smaller
RECURSIVE LexLess(_, _)
LexLess(a, b) ==
    IF b = <<>> THEN FALSE
    ELSE IF a = <<>> THEN TRUE
    ELSE IF Head(a) # Head(b) THEN Head(a) < Head(b)
    ELSE LexLess(Tail(a), Tail(b))

----------------------------------------------------------------------------
\* Helpers

\* hashlib.sha1(str(p)).hexdigest(), taken to be collision free
sha1_name(p) == [sha1 |-> p]

\* the value of a Python expression `x` used as a condition
Truthy(x) ==
    CASE x.t = "none"  -> FALSE
      [] x.t = "str"   -> x.v # <<>>
      [] x.t = "bytes" -> x.v # <<>>
      [] x.t = "int"   -> x.v # 0
      [] x.t = "map"   -> \E k \in DOMAIN x.v : x.v[k].t # "none"
      [] OTHER         -> TRUE

\* dict.get(k, default) on a dict held as a record whose missing keys are None
Get(d, k, default) == IF d[k].t = "none" THEN default ELSE d[k]

----------------------------------------------------------------------------
\* EXIF helpers

ExifTags == {"Make", "Model", "DateTimeOriginal", "DateTime", "GPSInfo"}
GpsTags  == {"GPSLatitude", "GPSLongitude", "GPSLatitudeRef", "GPSLongitudeRef", "GPSAltitude"}

EmptyExif == [k \in ExifTags |-> None]

\* get_exif_dict: {} when Image.open raises or _getexif() returns None
get_exif_dict(content) ==
    IF content.t = "exif" THEN content.v ELSE EmptyExif

Raise == [raised |-> TRUE]
Ret(v) == [raised |-> FALSE, val |-> v]

\* to_deg without the `if d else 0.0` guard: ZeroDivisionError, then float(val) of a pair
to_deg_unguarded(val) ==
    CASE val.t = "rat" -> IF val.d # 0 THEN Ret((2 * val.n) \div val.d) ELSE Raise
      [] val.t = "num" -> Ret(val.v)
      [] OTHER         -> Raise

\* _to_deg: a pair is n/d (0.0 when d is zero); anything else goes through float().
\* The value is returned doubled, so that halves stay integers.
to_deg(val) ==
    CASE val.t = "rat" -> Ret(IF val.d # 0 THEN (2 * val.n) \div val.d ELSE 0)
      [] val.t = "num" -> Ret(val.v)
      [] OTHER         -> Raise

\* dms_to_deg: d + m/60 + s/3600, in units of 1/7200 degree
dms_to_deg(dms) ==
    IF dms.t # "seq" \/ Len(dms.v) < 3 THEN Raise
    ELSE LET d == to_deg(dms.v[1])
             m == to_deg(dms.v[2])
             s == to_deg(dms.v[3])
         IN  IF d.raised \/ m.raised \/ s.raised THEN Raise
             ELSE Ret(d.val * 3600 + m.val * 60 + s.val)

IsRef(x, letter) == x.t \in {"str", "bytes"} /\ x.v = <<letter>>

\* parse_gps: (lon, lat), None, or an exception out of gps_info.items()
parse_gps(exif) ==
    LET gps_info == exif["GPSInfo"] IN
    IF ~Truthy(gps_info) THEN Ret(None)
    ELSE IF gps_info.t # "map" THEN Raise
    ELSE LET gps == gps_info.v IN
         IF gps["GPSLatitude"].t = "none" \/ gps["GPSLongitude"].t = "none" THEN Ret(None)
         ELSE LET lat == dms_to_deg(gps["GPSLatitude"])
                  lon == dms_to_deg(gps["GPSLongitude"])
              IN  IF lat.raised \/ lon.raised THEN Ret(None)
                  ELSE Ret([t   |-> "tuple",
                            lon |-> IF IsRef(Get(gps, "GPSLongitudeRef", Str(<<"E">>)), "W")
                                    THEN -lon.val ELSE lon.val,
                            lat |-> IF IsRef(Get(gps, "GPSLatitudeRef", Str(<<"N">>)), "S")
                                    THEN -lat.val ELSE lat.val])

NoGps == [lon |-> 0, lat |-> 0]
EmptyMeta == [keys |-> {}, camera |-> <<>>, datetime |-> <<>>, gps |-> NoGps]

\* str(x) of an EXIF value that is a str
StrOf(x) == x.v

\* `a or b`
Or(a, b) == IF Truthy(a) THEN a ELSE b

\* meta_from_rgb: the meta dict as [keys, camera, datetime, gps]; a key that
\* is not in keys is absent from the dict
meta_from_rgb(rgb_path, fs) ==
    IF rgb_path = None \/ rgb_path \notin DOMAIN fs THEN Ret(EmptyMeta)
    ELSE LET exif == get_exif_dict(fs[rgb_path].c)
             camera == Strip(JoinSpace(Strip(StrOf(Get(exif, "Make", Str(<<>>)))),
                                       Strip(StrOf(Get(exif, "Model", Str(<<>>))))))
             datetime == StrOf(Or(Or(exif["DateTimeOriginal"], exif["DateTime"]), Str(<<>>)))
             gps == parse_gps(exif)
         IN  IF gps.raised THEN Raise
             ELSE IF gps.val.t = "tuple"
                  THEN Ret([keys |-> {"camera", "datetime", "_gps"}, camera |-> camera,
                            datetime |-> datetime,
                            gps |-> [lon |-> gps.val.lon, lat |-> gps.val.lat]])
                  ELSE Ret([keys |-> {"camera", "datetime"}, camera |-> camera,
                            datetime |-> datetime, gps |-> NoGps])

----------------------------------------------------------------------------
\* The input tree

Path(d, st, suf) == [dir |-> d, stem |-> st, suf |-> suf]

\* entries a tree is drawn from: stems "a", "ab", "b", "c" in directories 1 and 2
Universe ==
    { Path(1, <<1>>, RADIOMETRIC_TIF_SUFFIX),
      Path(2, <<1>>, RADIOMETRIC_TIF_SUFFIX),
      Path(1, <<1>>, RGB_SUFFIX),
      Path(1, <<1, 2>>, RADIOMETRIC_TIFF_SUFFIX),
      Path(1, <<1, 2>>, RADIOMETRIC_TIF_SUFFIX),
      Path(1, <<2>>, RADIOMETRIC_JPG_SUFFIX),
      Path(2, <<2>>, RGB_SUFFIX),
      Path(1, <<2>>, OTHER_SUFFIX),
      Path(1, <<3>>, RADIOMETRIC_TIF_SUFFIX) }

Grid(h, w) == [t |-> "grid", shape |-> <<h, w>>]

\* a radiometric file: a 2-D grid, a 3-D stack of pages, or unreadable
TifContents == {Grid(1, MaxDim), [t |-> "stack", shape |-> <<2, 1, 1>>], [t |-> "corrupt"]}

Rat(n, d) == [t |-> "rat", n |-> n, d |-> d]
Dms(a, b, c) == [t |-> "seq", v |-> <<a, b, c>>]

GpsBlock(lat, latRef, lon, lonRef) ==
    [t |-> "map",
     v |-> [k \in GpsTags |->
              CASE k = "GPSLatitude"     -> lat
                [] k = "GPSLatitudeRef"  -> latRef
                [] k = "GPSLongitude"    -> lon
                [] k = "GPSLongitudeRef" -> lonRef
                [] OTHER                 -> None]]

Exif(make, model, dto, dt, gps) ==
    [t |-> "exif",
     v |-> [k \in ExifTags |->
              CASE k = "Make"             -> make
                [] k = "Model"            -> model
                [] k = "DateTimeOriginal" -> dto
                [] k = "DateTime"         -> dt
                [] OTHER                  -> gps]]

Lat2330 == Dms(Rat(23, 1), Rat(30, 1), Rat(0, 1))
Lon121  == Dms(Rat(121, 1), Rat(0, 1), Rat(0, 1))

\* a visible-light file: not an image, an image without EXIF, or an image with EXIF
RgbContents ==
    { [t |-> "unreadable"],
      [t |-> "noexif"],
      Exif(Str(<<"F", " ">>), Str(<<" ", "X">>), Str(<<"1">>), Str(<<"2">>),
           GpsBlock(Lat2330, Str(<<"S">>), Lon121, Str(<<"E">>))),
      Exif(None, Str(<<"X">>), None, Str(<<"2">>),
           GpsBlock(Dms(Rat(1, 0), Rat(0, 1), Rat(0, 1)), None, Lon121, [t |-> "bytes", v |-> <<"W">>])),
      Exif(Str(<<"F">>), None, None, None,
           GpsBlock(Lat2330, None, [t |-> "seq", v |-> <<Rat(121, 1), Rat(0, 1)>>], None)),
      Exif(None, None, Str(<<>>), None, [t |-> "int", v |-> 1234]) }

ContentsOf(p) ==
    CASE p.suf = RGB_SUFFIX -> RgbContents
      [] p.suf \in {RADIOMETRIC_TIF_SUFFIX, RADIOMETRIC_TIFF_SUFFIX} -> TifContents
      [] OTHER -> {[t |-> "blob"]}

\* what rglob("*") can yield at a path: a regular file, or (stem "c") a directory
EntriesAt(p) ==
    {[isFile |-> TRUE, c |-> c] : c \in ContentsOf(p)}
    \cup (IF p.stem = <<3>> THEN {[isFile |-> FALSE, c |-> [t |-> "dir"]]} ELSE {})

NoTree == [p \in {} |-> None]

RECURSIVE TreesOver(_)
TreesOver(D) ==
    IF D = {} THEN {NoTree}
    ELSE LET p == CHOOSE q \in D : TRUE IN
         { [q \in D |-> IF q = p THEN e ELSE f[q]] : f \in TreesOver(D \ {p}), e \in EntriesAt(p) }

Trees == UNION { TreesOver(D) : D \in {D \in SUBSET Universe : Cardinality(D) <= MaxFiles} }

----------------------------------------------------------------------------
\* Capture grouper

NoRoles == [r \in {} |-> None]

\* SetRole with `stems[stem] = {role: fp}` in place of setdefault
SetRole_overwrite(st, stem, role, fp) ==
    [s \in DOMAIN st \cup {stem} |-> IF s = stem THEN [r \in {role} |-> fp] ELSE st[s]]

\* stems.setdefault(stem, {})[role] = fp
SetRole(st, stem, role, fp) ==
    LET old == IF stem \in DOMAIN st THEN st[stem] ELSE NoRoles IN
    [s \in DOMAIN st \cup {stem} |->
        IF s = stem
        THEN [r \in DOMAIN old \cup {role} |-> IF r = role THEN fp ELSE old[r]]
        ELSE st[s]]

\* the body of the loop of find_triples for one entry fp
Classify(st, fp, entry) ==
    IF ~entry.isFile THEN st
    ELSE IF fp.suf = RGB_SUFFIX THEN SetRole(st, fp.stem, "rgb", fp)
    ELSE IF fp.suf = RADIOMETRIC_JPG_SUFFIX THEN SetRole(st, fp.stem, "rjpg", fp)
    ELSE IF fp.suf = RADIOMETRIC_TIF_SUFFIX THEN SetRole(st, fp.stem, "tif", fp)
    ELSE IF fp.suf = RADIOMETRIC_TIFF_SUFFIX THEN SetRole(st, fp.stem, "tif", fp)
    ELSE st

\* files.get(role)
RoleGet(files, role) == IF role \in DOMAIN files THEN files[role] ELSE None

LexMin(S) == CHOOSE a \in S : \A b \in S \ {a} : LexLess(a, b)

\* SortStems with sorted(..., key=len): shorter stems first
LenMin(S) == CHOOSE a \in S : \A b \in S \ {a} : Len(a) < Len(b) \/ (Len(a) = Len(b) /\ LexLess(a, b))

RECURSIVE SortStems_bylen(_)
SortStems_bylen(S) == IF S = {} THEN <<>> ELSE <<LenMin(S)>> \o SortStems_bylen(S \ {LenMin(S)})

\* the keys of sorted(triples.items())
RECURSIVE SortStems(_)
SortStems(S) == IF S = {} THEN <<>> ELSE <<LexMin(S)>> \o SortStems(S \ {LexMin(S)})

----------------------------------------------------------------------------
\* Radiometric decoder and renderer

\* read_tiff_temperature: the array (its shape), or the exception of tifffile
read_tiff_temperature(fs, tif_path) ==
    IF fs[tif_path].c.t \in {"grid", "stack"} THEN Ret([shape |-> fs[tif_path].c.shape])
    ELSE Raise

\* save_float32_bin: one little-endian float32 per element, no header
save_float32_bin(shape) == [t |-> "f32", bytes |-> 4 * shape[1] * shape[2]]

OutFile(dir, name, body) == [dir |-> dir, name |-> name, body |-> body]

----------------------------------------------------------------------------
\* Manifest builder

NoCur == [stem |-> <<>>, tif_path |-> None, rgb_path |-> None, shape |-> <<>>,
          shot_id |-> None, rgb_rel |-> None, meta |-> EmptyMeta]

\* the db entry of the current iteration
ShotRecord(c) ==
    [id            |-> c.shot_id,
     stem          |-> c.stem,
     rgb           |-> c.rgb_rel,
     thermal_color |-> <<"media/thermal_color", c.shot_id>>,
     thermal_dn    |-> <<"media/thermal_dn", c.shot_id>>,
     size          |-> [w |-> c.shape[2], h |-> c.shape[1]],
     meta          |-> c.meta]

\* Feature with the coordinates in [lat, lon] order
Feature_latlon(c) ==
    [coordinates |-> <<c.meta.gps.lat, c.meta.gps.lon>>,
     id          |-> c.shot_id,
     camera      |-> IF "camera" \in c.meta.keys THEN c.meta.camera ELSE <<>>,
     datetime    |-> IF "datetime" \in c.meta.keys THEN c.meta.datetime ELSE <<>>,
     thumb       |-> <<"media/thumbs", c.shot_id>>]

\* the feature of the current iteration
Feature(c) ==
    [coordinates |-> <<c.meta.gps.lon, c.meta.gps.lat>>,
     id          |-> c.shot_id,
     camera      |-> IF "camera" \in c.meta.keys THEN c.meta.camera ELSE <<>>,
     datetime    |-> IF "datetime" \in c.meta.keys THEN c.meta.datetime ELSE <<>>,
     thumb       |-> <<"media/thumbs", c.shot_id>>]

NoDb == [i \in {} |-> None]

\* DbPut with `db = {shot_id: ...}` in place of `db[shot_id] = ...`
DbPut_rebind(d, id, rec) == [i \in {id} |-> rec]

DbPut(d, id, rec) == [i \in DOMAIN d \cup {id} |-> IF i = id THEN rec ELSE d[i]]

BuildInit ==
    /\ tree \in Trees
    /\ pc = "scan"
    /\ unvisited = DOMAIN tree
    /\ stems = [s \in {} |-> NoRoles]
    /\ order = <<>>
    /\ idx = 0
    /\ cur = NoCur
    /\ out = {}
    /\ db = NoDb
    /\ features = <<>>
    /\ result = None

\* find_triples: rglob yields the next entry, in an order the file system chooses
ScanVisit ==
    /\ pc = "scan"
    /\ \E fp \in unvisited :
         /\ stems' = Classify(stems, fp, tree[fp])
         /\ unvisited' = unvisited \ {fp}
    /\ UNCHANGED <<tree, pc, order, idx, cur, out, db, features, result>>
    /\ UNCHANGED <<gpsVars, clientVars>>

\* find_triples returns; sorted(triples.items())
ScanDone ==
    /\ pc = "scan"
    /\ unvisited = {}
    /\ order' = SortStems(DOMAIN stems)
    /\ idx' = 1
    /\ pc' = "loop"
    /\ UNCHANGED <<tree, unvisited, stems, cur, out, db, features, result>>
    /\ UNCHANGED <<gpsVars, clientVars>>

\* the for loop takes the next item; a set without radiometric TIFF is skipped
LoopSkip ==
    /\ pc = "loop"
    /\ idx <= Len(order)
    /\ RoleGet(stems[order[idx]], "tif") = None
    /\ idx' = idx + 1
    /\ UNCHANGED <<tree, pc, unvisited, stems, order, cur, out, db, features, result>>
    /\ UNCHANGED <<gpsVars, clientVars>>

LoopBegin ==
    /\ pc = "loop"
    /\ idx <= Len(order)
    /\ RoleGet(stems[order[idx]], "tif") # None
    /\ cur' = [NoCur EXCEPT !.stem = order[idx],
                            !.tif_path = RoleGet(stems[order[idx]], "tif"),
                            !.rgb_path = RoleGet(stems[order[idx]], "rgb")]
    /\ pc' = "decode"
    /\ UNCHANGED <<tree, unvisited, stems, order, idx, out, db, features, result>>
    /\ UNCHANGED <<gpsVars, clientVars>>

\* temp = read_tiff_temperature(tif_path); h, w = temp.shape; shot_id = sha1_name(tif_path)
DecodeOk ==
    /\ pc = "decode"
    /\ LET r == read_tiff_temperature(tree, cur.tif_path) IN
         /\ ~r.raised
         /\ Len(r.val.shape) = 2
         /\ cur' = [cur EXCEPT !.shape = r.val.shape, !.shot_id = sha1_name(cur.tif_path)]
    /\ pc' = "render"
    /\ UNCHANGED <<tree, unvisited, stems, order, idx, out, db, features, result>>
    /\ UNCHANGED <<gpsVars, clientVars>>

\* the exception of read_tiff_temperature or of the unpacking of temp.shape
\* leaves build_site
DecodeFail ==
    /\ pc = "decode"
    /\ LET r == read_tiff_temperature(tree, cur.tif_path) IN
         IF r.raised THEN TRUE ELSE Len(r.val.shape) # 2
    /\ pc' = "aborted"
    /\ UNCHANGED <<tree, unvisited, stems, order, idx, cur, out, db, features, result>>
    /\ UNCHANGED <<gpsVars, clientVars>>

\* color_im.save(...); save_float32_bin(...)
Render ==
    /\ pc = "render"
    /\ out' = out \cup
         { OutFile("media/thermal_color", cur.shot_id, [t |-> "jpg", shape |-> cur.shape]),
           OutFile("media/thermal_dn", cur.shot_id, save_float32_bin(cur.shape)) }
    /\ pc' = "copy"
    /\ UNCHANGED <<tree, unvisited, stems, order, idx, cur, db, features, result>>
    /\ UNCHANGED <<gpsVars, clientVars>>

\* copy the RGB under its hashed name, if present
CopyRgb ==
    /\ pc = "copy"
    /\ IF cur.rgb_path # None /\ cur.rgb_path \in DOMAIN tree
       THEN /\ out' = out \cup {OutFile("media/rgb", sha1_name(cur.rgb_path),
                                         [t |-> "copy", src |-> cur.rgb_path])}
            /\ cur' = [cur EXCEPT !.rgb_rel = <<"media/rgb", sha1_name(cur.rgb_path)>>]
       ELSE UNCHANGED <<out, cur>>
    /\ pc' = "meta"
    /\ UNCHANGED <<tree, unvisited, stems, order, idx, db, features, result>>
    /\ UNCHANGED <<gpsVars, clientVars>>

\* meta = meta_from_rgb(rgb_path)
MetaOk ==
    /\ pc = "meta"
    /\ LET r == meta_from_rgb(cur.rgb_path, tree) IN
         /\ ~r.raised
         /\ cur' = [cur EXCEPT !.meta = r.val]
    /\ pc' = "thumb"
    /\ UNCHANGED <<tree, unvisited, stems, order, idx, out, db, features, result>>
    /\ UNCHANGED <<gpsVars, clientVars>>

\* an exception of meta_from_rgb leaves build_site
MetaRaise ==
    /\ pc = "meta"
    /\ meta_from_rgb(cur.rgb_path, tree).raised
    /\ pc' = "aborted"
    /\ UNCHANGED <<tree, unvisited, stems, order, idx, cur, out, db, features, result>>
    /\ UNCHANGED <<gpsVars, clientVars>>

\* thumb.save(...)
Thumb ==
    /\ pc = "thumb"
    /\ out' = out \cup {OutFile("media/thumbs", cur.shot_id, [t |-> "jpg", shape |-> cur.shape])}
    /\ pc' = "record"
    /\ UNCHANGED <<tree, unvisited, stems, order, idx, cur, db, features, result>>
    /\ UNCHANGED <<gpsVars, clientVars>>

\* db[shot_id] = {...}; features.append(...) when meta has _gps; next item
Record ==
    /\ pc = "record"
    /\ db' = DbPut(db, cur.shot_id, ShotRecord(cur))
    /\ features' = IF "_gps" \in cur.meta.keys THEN Append(features, Feature(cur)) ELSE features
    /\ idx' = idx + 1
    /\ pc' = "loop"
    /\ UNCHANGED <<tree, unvisited, stems, order, cur, out, result>>
    /\ UNCHANGED <<gpsVars, clientVars>>

\* the loop is exhausted: write db.json and points.geojson, return the counts
WriteOutputs ==
    /\ pc = "loop"
    /\ idx > Len(order)
    /\ out' = out \cup { OutFile("data", "db.json", [t |-> "json", v |-> db]),
                         OutFile("data", "points.geojson", [t |-> "json", v |-> features]) }
    /\ result' = [shots_indexed |-> Cardinality(DOMAIN db), features |-> Len(features)]
    /\ pc' = "done"
    /\ UNCHANGED <<tree, unvisited, stems, order, idx, cur, db, features>>
    /\ UNCHANGED <<gpsVars, clientVars>>

BuildNext ==
    \/ ScanVisit
    \/ ScanDone
    \/ LoopSkip
    \/ LoopBegin
    \/ DecodeOk
    \/ DecodeFail
    \/ Render
    \/ CopyRgb
    \/ MetaOk
    \/ MetaRaise
    \/ Thumb
    \/ Record
    \/ WriteOutputs

BuildIdle ==
    /\ tree = NoTree
    /\ pc = "idle"
    /\ unvisited = {}
    /\ stems = [s \in {} |-> NoRoles]
    /\ order = <<>>
    /\ idx = 0
    /\ cur = NoCur
    /\ out = {}
    /\ db = NoDb
    /\ features = <<>>
    /\ result = None

IdleGps == gpsIn = EmptyExif /\ gpsOut = None

\* thermOverlay.textContent: the dash, or the text of data[idx] of shot id
Dash == [t |-> "dash"]
Temp(id, i) == [t |-> "temp", id |-> id, idx |-> i]

IdleClient ==
    /\ DB = NoDb
    /\ DN_CACHE = NoDb
    /\ locked = FALSE
    /\ overlay = Dash
    /\ datasetId = None
    /\ loading = {}
    /\ lastEv = None

Init == BuildInit /\ IdleGps /\ IdleClient

Next == BuildNext

Spec == Init /\ [][Next]_vars

----------------------------------------------------------------------------
\* Vocabulary of the properties of the build

\* capture sets (stems of find_triples) that have a radiometric-raw file
TifStems == {s \in DOMAIN stems : "tif" \in DOMAIN stems[s]}

TifOf(s) == stems[s]["tif"]

\* the radiometric-raw file decodes to a 2-D grid
DecodesOk(p) == tree[p].c.t = "grid"

\* metadata extraction of the visible-light file of set s raises
MetaRaises(s) == "rgb" \in DOMAIN stems[s] /\ meta_from_rgb(stems[s]["rgb"], tree).raised

Terminated == pc \in {"done", "aborted"}

DbJson == OutFile("data", "db.json", [t |-> "json", v |-> db])
PointsJson == OutFile("data", "points.geojson", [t |-> "json", v |-> features])

Written(dir) == {f.name : f \in {g \in out : g.dir = dir}}

\* C1: when decoding the radiometric-raw file of one capture set fails, that
\* set produces no Shot and the build continues: every set with a decodable
\* radiometric-raw file still gets its Shot, and the index record and the
\* feature collection are written at the end of the build.
C1_DecodeFailureIsLocal ==
    ( /\ Terminated
      /\ \E s \in TifStems : ~DecodesOk(TifOf(s))
      /\ \A s \in TifStems : ~MetaRaises(s) )
    => /\ pc = "done"
       /\ \A s \in TifStems : DecodesOk(TifOf(s)) <=> sha1_name(TifOf(s)) \in DOMAIN db
       /\ {DbJson, PointsJson} \subseteq out

\* radiometric-raw files of the tree
TifFiles == {p \in DOMAIN tree : tree[p].isFile /\ p.suf \in {RADIOMETRIC_TIF_SUFFIX, RADIOMETRIC_TIFF_SUFFIX}}

\* C2: two radiometric-raw files with the same filename in different
\* directories each get a Shot id, and the two ids differ (both are keys of
\* the index record).
C2_SameNameDifferentDirs ==
    pc = "done" =>
        \A p, q \in TifFiles :
            (p.dir # q.dir /\ p.stem = q.stem /\ p.suf = q.suf) =>
                /\ sha1_name(p) # sha1_name(q)
                /\ {sha1_name(p), sha1_name(q)} \subseteq DOMAIN db

\* C3: metadata extraction never raises to build_site, whatever the
\* visible-light file holds; the Shot of the capture set is still added to the
\* index, and a failure leaves it without _gps and without GeoFeature.
C3_MetadataNeverRaises ==
    /\ pc = "meta" => ~meta_from_rgb(cur.rgb_path, tree).raised
    /\ pc = "done" => \A s \in TifStems : sha1_name(TifOf(s)) \in DOMAIN db

\* C7: the meta object of every Shot entry has the fields camera and datetime.
C7_MetaHasCameraAndDatetime ==
    \A id \in DOMAIN db : {"camera", "datetime"} \subseteq db[id].meta.keys

\* C4: at the end of every completed build the index record has one entry per
\* capture set that has a radiometric-raw file and decoded successfully, and
\* shots_indexed reports that number; a set without radiometric-raw file
\* contributes no entry; a tree without radiometric-raw file completes with an
\* empty index and an empty feature collection.
C4_IndexCountsDecodedSets ==
    /\ pc = "done" =>
         /\ Cardinality(DOMAIN db) = Cardinality({s \in TifStems : DecodesOk(TifOf(s))})
         /\ result.shots_indexed = Cardinality(DOMAIN db)
         /\ \A id \in DOMAIN db : db[id].stem \in TifStems
         /\ DbJson \in out
    /\ (Terminated /\ TifFiles = {}) =>
         /\ pc = "done"
         /\ db = NoDb
         /\ features = <<>>
         /\ {DbJson, PointsJson} \subseteq out

\* a completed build with two Shots and a capture set that has no radiometric-raw file
C4_Witness ==
    /\ pc = "done"
    /\ Cardinality(DOMAIN db) = 2
    /\ DOMAIN stems \ TifStems # {}

\* Shots whose metadata includes a geolocation
GeoShots == {id \in DOMAIN db : "_gps" \in db[id].meta.keys}

\* C5: after a build (and after every iteration of it) the feature collection
\* holds exactly one GeoFeature per Shot that has a geolocation and none for
\* any other Shot; a feature's id is a key of the index record and its
\* coordinates are [lon, lat] of that Shot's _gps; there are never more
\* features than Shots.
C5_FeaturesMatchGeolocatedShots ==
    pc \in {"loop", "done"} =>
        /\ {features[i].id : i \in 1..Len(features)} = GeoShots
        /\ Len(features) = Cardinality(GeoShots)
        /\ \A i \in 1..Len(features) :
             /\ features[i].id \in DOMAIN db
             /\ features[i].coordinates = <<db[features[i].id].meta.gps.lon,
                                            db[features[i].id].meta.gps.lat>>
        /\ Len(features) <= Cardinality(DOMAIN db)
        /\ pc = "done" => PointsJson \in out

\* a completed build with a geolocated Shot and a Shot without geolocation
C5_Witness ==
    /\ pc = "done"
    /\ Len(features) = 1
    /\ Cardinality(DOMAIN db) = 2
    /\ features[1].coordinates[1] # features[1].coordinates[2]

\* the role find_triples gives a file name, and the files it classifies
RoleOf(p) ==
    CASE p.suf = RGB_SUFFIX -> "rgb"
      [] p.suf = RADIOMETRIC_JPG_SUFFIX -> "rjpg"
      [] OTHER -> "tif"

ClassifiedFiles == {p \in DOMAIN tree : tree[p].isFile /\ p.suf # OTHER_SUFFIX}

NoCollision ==
    \A p, q \in ClassifiedFiles : (p.stem = q.stem /\ RoleOf(p) = RoleOf(q)) => p = q

\* the grouping of the tree, written without reference to a visiting order
Grouping ==
    [s \in {p.stem : p \in ClassifiedFiles} |->
        [r \in {RoleOf(p) : p \in {q \in ClassifiedFiles : q.stem = s}} |->
            CHOOSE p \in ClassifiedFiles : p.stem = s /\ RoleOf(p) = r]]

\* C8: whatever the order in which find_triples visits the files, the set of
\* stems it returns is the same; when no two files map to the same stem and
\* role, the whole mapping, and the set of Shot ids of a completed build, are
\* the same for every visiting order.
C8_GroupingIndependentOfOrder ==
    pc # "scan" =>
        /\ DOMAIN stems = {p.stem : p \in ClassifiedFiles}
        /\ NoCollision => stems = Grouping
        /\ (NoCollision /\ pc = "done") => DOMAIN db = {sha1_name(p) : p \in TifFiles}

\* a completed build of three classified files without collision, two of one stem
C8_Witness ==
    /\ pc = "done"
    /\ NoCollision
    /\ Cardinality(ClassifiedFiles) = 3
    /\ \E s \in DOMAIN stems : Cardinality(DOMAIN stems[s]) = 2
    /\ db # NoDb

InIteration == pc \in {"decode", "render", "copy", "meta", "thumb", "record", "aborted"}

\* a step of the pipeline of capture set t has been taken
Begun(t) ==
    \/ InIteration /\ cur.stem = t
    \/ sha1_name(TifOf(t)) \in DOMAIN db
    \/ \E f \in out : f.name = sha1_name(TifOf(t))

\* capture set t has all its artifacts and its Shot entry
Completed(t) ==
    /\ sha1_name(TifOf(t)) \in DOMAIN db
    /\ sha1_name(TifOf(t)) \in Written("media/thermal_color")
    /\ sha1_name(TifOf(t)) \in Written("media/thermal_dn")
    /\ sha1_name(TifOf(t)) \in Written("media/thumbs")
    /\ "rgb" \in DOMAIN stems[t] => sha1_name(stems[t]["rgb"]) \in Written("media/rgb")

\* C10: the capture sets are processed in lexicographic order of their stems,
\* each to completion before any step of the next; the index record and the
\* feature collection are written only after the last one.
C10_SetsInStemOrderOneAtATime ==
    /\ \A t, u \in TifStems : (LexLess(t, u) /\ Begun(u)) => Completed(t)
    /\ (\E f \in out : f.dir = "data") => (pc = "done" /\ \A t \in TifStems : Completed(t))

\* the second of three capture sets is being processed: "a" is complete, "c" not begun
C10_Witness ==
    /\ pc = "thumb"
    /\ cur.stem = <<1, 2>>
    /\ \E t \in TifStems : LexLess(t, cur.stem) /\ Completed(t)
    /\ \E u \in TifStems : LexLess(cur.stem, u) /\ ~Begun(u)

----------------------------------------------------------------------------
\* parse_gps on its own: the GPS blocks it is applied to

Components ==
    {Rat(n, d) : n \in 0..MaxNum, d \in {0, 1, 2}} \cup {[t |-> "num", v |-> 3], [t |-> "bad"]}

\* a DMS value: a sequence of two or three components, or not a sequence
DmsValues ==
    {[t |-> "seq", v |-> q] : q \in [1..3 -> Components] \cup [1..2 -> Components]}
    \cup {[t |-> "bad"]}

FewDms == {None, Lon121, [t |-> "seq", v |-> <<Rat(1, 1), Rat(1, 0)>>]}

LatRefs == {None, Str(<<"S">>), [t |-> "bytes", v |-> <<"S">>], Str(<<"N">>)}
LonRefs == {None, Str(<<"W">>)}

GpsProbe == Path(1, <<1>>, RGB_SUFFIX)

\* the exif argument: no GPS block, a GPS block that is an integer, or a mapping
\* in which one of latitude and longitude ranges over all the DMS values
GpsInit ==
    /\ \/ \E g \in {None, [t |-> "int", v |-> 0], [t |-> "int", v |-> 1234]} :
            gpsIn = Exif(None, None, None, None, g).v
       \/ \E lat \in DmsValues \cup {None}, latRef \in LatRefs, lon \in FewDms, lonRef \in LonRefs :
            gpsIn = Exif(None, None, None, None, GpsBlock(lat, latRef, lon, lonRef)).v
       \/ \E lat \in FewDms, latRef \in LatRefs, lon \in DmsValues, lonRef \in LonRefs :
            gpsIn = Exif(None, None, None, None, GpsBlock(lat, latRef, lon, lonRef)).v
    /\ gpsOut = None

\* parse_gps(exif), and meta_from_rgb of a visible-light file holding that EXIF
ParseGps ==
    /\ gpsOut = None
    /\ gpsOut' = [t    |-> "out",
                  gps  |-> parse_gps(gpsIn),
                  meta |-> meta_from_rgb(GpsProbe,
                                         [p \in {GpsProbe} |->
                                            [isFile |-> TRUE, c |-> [t |-> "exif", v |-> gpsIn]]])]
    /\ UNCHANGED <<gpsIn, buildVars, clientVars>>

InitGps == BuildIdle /\ GpsInit /\ IdleClient

NextGps == ParseGps

SpecGps == InitGps /\ [][NextGps]_vars

\* Vocabulary of the properties of parse_gps

GpsCalled == gpsOut # None

\* the GPS block is a non-empty mapping
GpsIsMap == gpsIn["GPSInfo"].t = "map" /\ Truthy(gpsIn["GPSInfo"])

GpsLat == gpsIn["GPSInfo"].v["GPSLatitude"]
GpsLon == gpsIn["GPSInfo"].v["GPSLongitude"]

MissingTag == GpsLat.t = "none" \/ GpsLon.t = "none"

\* fewer than three components (or nothing to index)
ShortDms(dms) == dms.t # "seq" \/ Len(dms.v) < 3

\* one of the three components read is not a pair and float() rejects it
BadComponent(dms) == \E i \in 1..3 : dms.v[i].t \notin {"rat", "num"}

\* one of the three components read is a rational with denominator zero
ZeroDenominator(dms) == \E i \in 1..3 : dms.v[i].t = "rat" /\ dms.v[i].d = 0

Unparsable(dms) == IF ShortDms(dms) THEN TRUE ELSE BadComponent(dms)

NoGeolocation ==
    /\ gpsOut.gps = Ret(None)
    /\ ~gpsOut.meta.raised
    /\ "_gps" \notin gpsOut.meta.val.keys

\* C6 (as claimed): a missing latitude or longitude tag, a DMS triple with
\* fewer than three components, or a malformed rational component, one with
\* denominator zero included, each make parse_gps return None, and the meta
\* carries no _gps.
C6_AnyParseFailureYieldsNone ==
    (GpsCalled /\ GpsIsMap /\
       (IF MissingTag THEN TRUE
        ELSE IF Unparsable(GpsLat) \/ Unparsable(GpsLon) THEN TRUE
        ELSE ZeroDenominator(GpsLat) \/ ZeroDenominator(GpsLon)))
    => NoGeolocation

\* C6 (amended): a missing latitude or longitude tag, a DMS value with fewer
\* than three components, or a component that is not a pair and that float()
\* rejects make parse_gps return None, and the meta carries no _gps; a pair whose
\* denominator is zero is not a failure: it is read as 0.0 and the
\* geolocation is returned.
C6_ParseFailureYieldsNone ==
    (GpsCalled /\ GpsIsMap) =>
        IF MissingTag THEN NoGeolocation
        ELSE IF Unparsable(GpsLat) \/ Unparsable(GpsLon) THEN NoGeolocation
        ELSE /\ ~gpsOut.gps.raised
             /\ gpsOut.gps.val.t = "tuple"
             /\ "_gps" \in gpsOut.meta.val.keys
             /\ (\A i \in 1..3 : GpsLat.v[i].t = "rat" /\ GpsLat.v[i].d = 0)
                    => gpsOut.gps.val.lat = 0

\* parse_gps has returned None for a block whose latitude has two components
C6_Witness ==
    /\ GpsCalled
    /\ GpsIsMap
    /\ ~MissingTag
    /\ GpsLat.t = "seq" /\ Len(GpsLat.v) = 2
    /\ ~Unparsable(GpsLon)
    /\ NoGeolocation

----------------------------------------------------------------------------
\* Client viewer (make_main_js)

\* a JavaScript number that is an integer, NaN or an infinity
Num(v) == [k |-> "int", v |-> v]
NaN    == [k |-> "nan"]
PosInf == [k |-> "inf"]
NegInf == [k |-> "-inf"]

\* Math.floor(a / b) for integers a and b >= 0
FloorQuot(a, b) ==
    IF b # 0 THEN Num(a \div b)
    ELSE IF a = 0 THEN NaN
    ELSE IF a > 0 THEN PosInf ELSE NegInf

\* x < n and x >= n of JavaScript, n an integer; both are false for NaN
JsLess(x, n) == x.k = "-inf" \/ (x.k = "int" /\ x.v < n)
JsGeq(x, n)  == x.k = "inf" \/ (x.k = "int" /\ x.v >= n)

\* scale = Math.min(rect.width / dn.w, rect.height / dn.h), as numerator and denominator
ScaleOf(W, H, w, h) ==
    IF W * h <= H * w THEN [num |-> W, den |-> w] ELSE [num |-> H, den |-> h]

\* Math.floor((css - (size - n * scale) / 2) / scale): the buffer column (row) under
\* the pointer, for an image side of n samples shown in size CSS px
Cell(css, size, n, sc) ==
    IF sc.num # 0
    THEN FloorQuot(2 * sc.den * css - sc.den * size + n * sc.num, 2 * sc.num)
    ELSE FloorQuot(2 * css - size, 0)

Event(W, H, px, py) == [W |-> W, H |-> H, px |-> px, py |-> py]

\* sides of the display rectangle: collapsed, one pixel, the largest
RectSides == {0, 1, MaxRect}

\* a pointer event: the rectangle of thermImg and the pointer position in it
Events ==
    UNION { {Event(W, H, px, py) : px \in 0..W, py \in 0..H} : W \in RectSides, H \in RectSides }

\* showValueAtEvent with `x > dn.w` for `x >= dn.w` in the range test
showValueAtEvent_offbyone(ev, id, cache) ==
    IF id = None \/ id \notin DOMAIN cache
    THEN [overlay |-> Dash, ev |-> ev, id |-> id, cached |-> FALSE, x |-> NaN, y |-> NaN]
    ELSE LET dn == cache[id]
             sc == ScaleOf(ev.W, ev.H, dn.w, dn.h)
             x  == Cell(ev.px, ev.W, dn.w, sc)
             y  == Cell(ev.py, ev.H, dn.h, sc)
             shown ==
                 IF JsLess(x, 0) \/ JsLess(y, 0) \/ JsGeq(x, dn.w + 1) \/ JsGeq(y, dn.h) THEN Dash
                 ELSE IF x.k = "int" /\ y.k = "int" /\ y.v * dn.w + x.v \in 0..(dn.len - 1)
                      THEN Temp(id, y.v * dn.w + x.v)
                      ELSE Dash
         IN  [overlay |-> shown, ev |-> ev, id |-> id, cached |-> TRUE, x |-> x, y |-> y]

\* showValueAtEvent: the new overlay text and what was computed on the way
showValueAtEvent(ev, id, cache) ==
    IF id = None \/ id \notin DOMAIN cache
    THEN [overlay |-> Dash, ev |-> ev, id |-> id, cached |-> FALSE, x |-> NaN, y |-> NaN]
    ELSE LET dn == cache[id]
             sc == ScaleOf(ev.W, ev.H, dn.w, dn.h)
             x  == Cell(ev.px, ev.W, dn.w, sc)
             y  == Cell(ev.py, ev.H, dn.h, sc)
             shown ==
                 IF JsLess(x, 0) \/ JsLess(y, 0) \/ JsGeq(x, dn.w) \/ JsGeq(y, dn.h) THEN Dash
                 ELSE IF x.k = "int" /\ y.k = "int" /\ y.v * dn.w + x.v \in 0..(dn.len - 1)
                      THEN Temp(id, y.v * dn.w + x.v)
                      ELSE Dash
         IN  [overlay |-> shown, ev |-> ev, id |-> id, cached |-> TRUE, x |-> x, y |-> y]

\* the two shots of the site the viewer is opened on
ShotA == sha1_name(Path(1, <<1>>, RADIOMETRIC_TIF_SUFFIX))
ShotB == sha1_name(Path(1, <<3>>, RADIOMETRIC_TIF_SUFFIX))

ClientShot(id, shape) ==
    ShotRecord([NoCur EXCEPT !.stem = id.sha1.stem, !.tif_path = id.sha1,
                             !.shape = shape, !.shot_id = id])

\* what build_site has written for a shot of the given shape
ClientFiles(id, shape) ==
    { OutFile("media/thermal_color", id, [t |-> "jpg", shape |-> shape]),
      OutFile("media/thermal_dn", id, save_float32_bin(shape)),
      OutFile("media/thumbs", id, [t |-> "jpg", shape |-> shape]) }

\* shapes (h, w) of the first shot: wide, tall, square
ClientShapes == {<<1, MaxDim>>, <<MaxDim, 1>>, <<MaxDim, MaxDim>>}

\* DOMContentLoaded has run on the output of a completed build: DB is db.json
ClientInit ==
    /\ \E shape \in ClientShapes :
         /\ db = [i \in {ShotA, ShotB} |->
                    IF i = ShotA THEN ClientShot(i, shape) ELSE ClientShot(i, <<1, 1>>)]
         /\ out = ClientFiles(ShotA, shape) \cup ClientFiles(ShotB, <<1, 1>>)
    /\ DB = db
    /\ tree = NoTree
    /\ pc = "done"
    /\ unvisited = {}
    /\ stems = [s \in {} |-> NoRoles]
    /\ order = <<>>
    /\ idx = 0
    /\ cur = NoCur
    /\ features = <<>>
    /\ result = None
    /\ DN_CACHE = NoDb
    /\ locked = FALSE
    /\ overlay = Dash
    /\ datasetId = None
    /\ loading = {}
    /\ lastEv = None

\* new Float32Array(buf).length of the fetched thermal_dn file
FetchedLen(id) == (CHOOSE f \in out : f.dir = "media/thermal_dn" /\ f.name = id).body.bytes \div 4

\* thermImg mousemove
MouseMove ==
    /\ \E ev \in Events :
         IF ~locked
         THEN LET r == showValueAtEvent(ev, datasetId, DN_CACHE) IN
              /\ overlay' = r.overlay
              /\ lastEv' = r
         ELSE UNCHANGED <<overlay, lastEv>>
    /\ UNCHANGED <<DB, DN_CACHE, locked, datasetId, loading, buildVars, gpsVars>>

\* thermImg click
Click ==
    /\ \E ev \in Events :
         IF ~locked
         THEN LET r == showValueAtEvent(ev, datasetId, DN_CACHE) IN
              /\ overlay' = r.overlay
              /\ lastEv' = r
              /\ locked' = TRUE
         ELSE /\ locked' = FALSE
              /\ UNCHANGED <<overlay, lastEv>>
    /\ UNCHANGED <<DB, DN_CACHE, datasetId, loading, buildVars, gpsVars>>

\* MouseLeave without the `if (!locked)` test
MouseLeave_unguarded ==
    /\ overlay' = Dash
    /\ UNCHANGED <<DB, DN_CACHE, locked, datasetId, loading, lastEv, buildVars, gpsVars>>

\* thermImg mouseleave
MouseLeave ==
    /\ overlay' = IF ~locked THEN Dash ELSE overlay
    /\ UNCHANGED <<DB, DN_CACHE, locked, datasetId, loading, lastEv, buildVars, gpsVars>>

\* loadShot(id) up to the await: a marker of shot id is clicked
LoadShot ==
    /\ \E id \in DOMAIN DB :
         /\ datasetId' = id
         /\ loading' = IF id \notin DOMAIN DN_CACHE THEN loading \cup {id} ELSE loading
    /\ UNCHANGED <<DB, DN_CACHE, locked, overlay, lastEv, buildVars, gpsVars>>

\* loadShot(id) after the await: the fetched buffer enters DN_CACHE
LoadShotFetched ==
    /\ \E id \in loading :
         /\ DN_CACHE' = DbPut(DN_CACHE, id,
                              [w |-> DB[id].size.w, h |-> DB[id].size.h, len |-> FetchedLen(id)])
         /\ loading' = loading \ {id}
    /\ UNCHANGED <<DB, locked, overlay, datasetId, lastEv, buildVars, gpsVars>>

InitClient == ClientInit /\ IdleGps

NextClient ==
    \/ MouseMove
    \/ Click
    \/ MouseLeave
    \/ LoadShot
    \/ LoadShotFetched

SpecClient == InitClient /\ [][NextClient]_vars

\* Vocabulary of the properties of the pixel inspector

\* the pointer of event ev is on the letterboxed picture of a w x h buffer: the
\* centered rectangle of aspect w:h that fills the width or the height of the
\* display rectangle
OnPicture(ev, w, h) ==
    IF ev.W * h <= ev.H * w
    THEN /\ 0 <= ev.px /\ ev.px < ev.W
         /\ w * ev.H - h * ev.W <= 2 * w * ev.py
         /\ 2 * w * ev.py < w * ev.H + h * ev.W
    ELSE /\ 0 <= ev.py /\ ev.py < ev.H
         /\ h * ev.W - w * ev.H <= 2 * h * ev.px
         /\ 2 * h * ev.px < h * ev.W + w * ev.H

\* C9: showValueAtEvent reports a temperature only when the computed column
\* and row satisfy 0 <= column < bufferWidth and 0 <= row < bufferHeight; the
\* value read is then at index row * bufferWidth + column, which lies in
\* [0, bufferWidth * bufferHeight) and in the fetched buffer; for a pointer
\* off the picture (the letterbox margins included) no value is reported.
C9_ReadoutOnlyInsideBuffer ==
    lastEv # None =>
        /\ lastEv.overlay.t = "temp" =>
             LET w == DB[lastEv.id].size.w
                 h == DB[lastEv.id].size.h
             IN  /\ lastEv.x.k = "int" /\ lastEv.y.k = "int"
                 /\ 0 <= lastEv.x.v /\ lastEv.x.v < w
                 /\ 0 <= lastEv.y.v /\ lastEv.y.v < h
                 /\ lastEv.overlay.id = lastEv.id
                 /\ lastEv.overlay.idx = lastEv.y.v * w + lastEv.x.v
                 /\ lastEv.overlay.idx \in 0..(w * h - 1)
                 /\ lastEv.overlay.idx < DN_CACHE[lastEv.id].len
                 /\ OnPicture(lastEv.ev, w, h)
        /\ lastEv.cached =>
             (~OnPicture(lastEv.ev, DB[lastEv.id].size.w, DB[lastEv.id].size.h)
                 => lastEv.overlay = Dash)

\* a value was read in the second row or column of a letterboxed picture
C9_Witness ==
    /\ lastEv # None
    /\ lastEv.overlay.t = "temp"
    /\ lastEv.overlay.idx >= 1
    /\ lastEv.ev.W * DB[lastEv.id].size.h # lastEv.ev.H * DB[lastEv.id].size.w

\* the pointer was in a letterbox margin and the dash was shown
C9_MarginWitness ==
    /\ lastEv # None
    /\ lastEv.cached
    /\ lastEv.ev.W > 0 /\ lastEv.ev.H > 0
    /\ ~OnPicture(lastEv.ev, DB[lastEv.id].size.w, DB[lastEv.id].size.h)
    /\ lastEv.ev.px < lastEv.ev.W /\ lastEv.ev.py < lastEv.ev.H

\* C11: the locked flag changes only on a click on the thermal image, and
\* every click toggles it; while locked is true no event (pointer move,
\* pointer leave, loading another shot, the unlocking click itself) changes
\* the overlay text, and the text is the one read at the locking click.
C11_LockFreezesReadout ==
    [][ /\ locked' # locked => Click
        /\ Click => locked' = ~locked
        /\ locked => overlay' = overlay
        /\ (~locked /\ locked') => (lastEv' # None /\ overlay' = lastEv'.overlay)
        /\ locked' => overlay' = lastEv'.overlay ]_vars

\* the readout is locked on a value of one shot while another shot is loaded
C11_Witness ==
    /\ locked
    /\ overlay.t = "temp"
    /\ datasetId # overlay.id
    /\ datasetId \in DOMAIN DN_CACHE

====
